---- MODULE Spec2Model ----
(***************************************************************************)
(* Solana wallet analytics over the Solscan Pro API.                       *)
(*                                                                         *)
(* The model covers src/src/solscan.js (the three endpoint helpers and the *)
(* iterTransactions async generator) and the fetchAll handler of           *)
(* src/src/App.jsx together with the React state it reads and writes.      *)
(*                                                                         *)
(* One step of the model is one synchronous run of JavaScript: from a      *)
(* click or from the settlement of the awaited promise up to the next      *)
(* await.  The position of the suspended fetchAll is pc.                   *)
(***************************************************************************)
EXTENDS Integers, Sequences, FiniteSets, TLC

(***************************************************************************)
(* Bounds of the model.                                                    *)
(***************************************************************************)
\* the server has at most this many non-empty balance-change pages
MaxBalPages == 10
\* the server has at most this many non-empty transaction pages
MaxTxPages == 2

(***************************************************************************)
(* Program constants.                                                      *)
(***************************************************************************)
\* useState(20000): the default row cap
DefaultMaxRows == 20000
\* the page_size argument of getBalanceChanges in fetchAll
PageSize == 100
\* the limit argument of iterTransactions in fetchAll
TxLimit == 50
\* seconds in a UTC day: DateTime.fromISO(d).toSeconds() of a whole date
DaySeconds == 86400
\* the null of startEpoch / endEpoch when no date is entered
Null == -1

\* JavaScript truthiness of an epoch value (null and 0 are falsy)
Truthy(e) == e # Null /\ e # 0

Min(a, b) == IF a < b THEN a ELSE b
Max(a, b) == IF a > b THEN a ELSE b
\* Math.round(n / d) for n >= 0, d > 0
Round(n, d) == (2 * n + d) \div (2 * d)

(***************************************************************************)
(* Inputs.  A date is <<>> (the empty string of the input field) or <<d>>, *)
(* the d-th day after 1970-01-01.                                          *)
(***************************************************************************)
Keys == {"", "key"}
Addresses == {"", "addr"}
StartDates == {<<>>, <<0>>, <<2>>}
EndDates == {<<>>, <<2>>}
MaxRowsSet == {1, 3, DefaultMaxRows}

\* items of a transaction page (blockTime 0 / txHash "" stand for absent):
\* before day 2, on day 2, after day 2 without hash, without time
TxBefore == [blockTime |-> 2 * DaySeconds - 1, txHash |-> "h1"]
TxInside == [blockTime |-> 2 * DaySeconds, txHash |-> "h2"]
TxAfter == [blockTime |-> 3 * DaySeconds, txHash |-> ""]
TxNoTime == [blockTime |-> 0, txHash |-> "h1"]
\* the data lists a transaction page can carry
TxLists ==
  { <<>>,
    << TxInside >>,
    << TxBefore, TxInside >>,
    << TxInside, TxAfter >>,
    << TxNoTime, TxBefore >>,
    << TxAfter, TxNoTime, TxInside >> }

\* lists of a balance-change page
BalLists ==
  { <<>>,
    << [block_time |-> 2 * DaySeconds, tx_hash |-> "h2"],
       [block_time |-> 2 * DaySeconds + 7, tx_hash |-> "h3"] >> }

\* HTTP statuses of a response that is not ok
FailStatuses == {500}

VARIABLES
  apiKey,      \* useState: the API key field
  address,     \* useState: the address field
  startDate,   \* start date as captured by the running fetchAll
  endDate,     \* end date as captured by the running fetchAll
  maxRows,     \* row cap as captured by the running fetchAll
  status,      \* useState
  loading,     \* useState
  progress,    \* useState
  rows,        \* useState: the visible result set
  pc,          \* where fetchAll is suspended ("idle": not running)
  page,        \* fetchAll local (balance-change loop)
  out,         \* fetchAll local (balance-change loop)
  out2,        \* fetchAll local (transaction loop)
  beforeHash,  \* iterTransactions local
  inflight,    \* requests sent and not yet answered
  outcome,     \* how the last awaited endpoint call settled
  yielded,     \* history: the batches iterTransactions yielded in this fetch
  batchMax,    \* history: largest batch of the phase whose rows are shown
  lastLen      \* history: length of the list in the last page received

vars == << apiKey, address, startDate, endDate, maxRows, status, loading,
           progress, rows, pc, page, out, out2, beforeHash, inflight,
           outcome, yielded, batchMax, lastLen >>

(***************************************************************************)
(* App.jsx lines 34-35                                                     *)
(***************************************************************************)
FromISO(d) == d[1] * DaySeconds
startEpoch == IF startDate # <<>> THEN FromISO(startDate) ELSE Null
\* endOf("day") is 23:59:59.999; timestamps are whole seconds, so the
\* comparison r.blockTime <= endEpoch is the one against the last second
endEpoch == IF endDate # <<>> THEN FromISO(endDate) + (DaySeconds - 1) ELSE Null

(***************************************************************************)
(* Requests (solscan.js)                                                   *)
(***************************************************************************)
AccountReq == [kind |-> "detail", page |-> 0, pageSize |-> 0, limit |-> 0,
               beforeHash |-> ""]
BalanceReq(p, ps) == [kind |-> "balance_change", page |-> p, pageSize |-> ps,
                      limit |-> 0, beforeHash |-> ""]
\* if (beforeHash) qp.push(...): a falsy cursor is not sent
TxReq(limit, bh) == [kind |-> "transactions", page |-> 0, pageSize |-> 0,
                     limit |-> limit, beforeHash |-> bh]

AccountError(s) == "Account detail error (" \o ToString(s) \o ")"
BalanceError(s) == "Balance changes error (" \o ToString(s) \o ")"
TxError(s) == "Transactions error (" \o ToString(s) \o ")"
\* message of the TypeError a rejected fetch() carries
NetworkError == "Failed to fetch"

(***************************************************************************)
(* Row normalisation and date filter (fetchAll)                            *)
(***************************************************************************)
NormalizeBal(x) == [blockTime |-> x.block_time, signature |-> x.tx_hash]
NormalizeTx(t) == [blockTime |-> t.blockTime, signature |-> t.txHash]
\* list.map(x => ({...})) of the balance-change loop
NormalizeBalList(list) == [i \in 1..Len(list) |-> NormalizeBal(list[i])]
\* the out2.push({...}) loop over a transaction page
NormalizeTxList(list) == [i \in 1..Len(list) |-> NormalizeTx(list[i])]

\* variant: the row dated exactly at the start bound is dropped
KeepStartStrict(r) == r.blockTime = 0 \/ r.blockTime > startEpoch
KeepStart(r) == r.blockTime = 0 \/ r.blockTime >= startEpoch
KeepEnd(r) == r.blockTime = 0 \/ r.blockTime <= endEpoch
DateFilter(s) ==
  LET s1 == IF Truthy(startEpoch) THEN SelectSeq(s, KeepStart) ELSE s
  IN  IF Truthy(endEpoch) THEN SelectSeq(s1, KeepEnd) ELSE s1

BalanceProgress(p) == Min(80, 20 + p * 4)
TxProgress(n) == Min(95, 60 + Round(n * 35, Max(500, maxRows)))
FetchedStatus(n) == "Fetched " \o ToString(n) \o "..."

\* the balance-change phase runs when a bound is truthy
HasDates == Truthy(startEpoch) \/ Truthy(endEpoch)
\* the balance-change loop breaks
BalanceBreak(list, o) == Len(list) = 0 \/ Len(o) >= maxRows
\* variant: the loop breaks only once the cap is exceeded
TxBreakStrict(o2) == Len(o2) > maxRows
\* the transaction loop breaks
TxBreak(o2) == Len(o2) >= maxRows
\* variant: the Fetch button stays enabled during a fetch
CanStartFetchAlways == TRUE
\* the Fetch button is rendered only while loading is false
CanStartFetch == ~loading
\* page += 1
NextPage(p) == p + 1
\* variant: the cursor is taken from the first element
NextCursorFirst(list) == list[1].txHash
\* beforeHash = list[list.length - 1]?.txHash
NextCursor(list) == list[Len(list)].txHash
\* variant: the address is not validated
ValidationErrorKeyOnly ==
  IF apiKey = "" THEN "Enter your Solscan Pro API key." ELSE ""
\* the message of the Error fetchAll throws before its first request, "" if
\* the inputs pass
ValidationError ==
  IF apiKey = "" THEN "Enter your Solscan Pro API key."
  ELSE IF address = "" THEN "Enter a Solana address."
  ELSE ""

Init ==
  /\ apiKey = "" /\ address = ""
  /\ startDate = <<>> /\ endDate = <<>> /\ maxRows = DefaultMaxRows
  /\ status = "Idle" /\ loading = FALSE /\ progress = 0 /\ rows = <<>>
  /\ pc = "idle" /\ page = 0 /\ out = <<>> /\ out2 = <<>> /\ beforeHash = ""
  /\ inflight = <<>> /\ outcome = "none" /\ yielded = <<>> /\ batchMax = 0
  /\ lastLen = 0

SetApiKey ==
  /\ \E k \in Keys : apiKey' = k
  /\ UNCHANGED << address, startDate, endDate, maxRows, status, loading,
                  progress, rows, pc, page, out, out2, beforeHash, inflight,
                  outcome, yielded, batchMax, lastLen >>

SetAddress ==
  /\ \E a \in Addresses : address' = a
  /\ UNCHANGED << apiKey, startDate, endDate, maxRows, status, loading,
                  progress, rows, pc, page, out, out2, beforeHash, inflight,
                  outcome, yielded, batchMax, lastLen >>

\* variant: a failure clears the result set
FailDiscardRows(msg, how) ==
  /\ status' = msg
  /\ loading' = FALSE
  /\ pc' = "idle"
  /\ outcome' = how
  /\ rows' = <<>>
  /\ page' = 0 /\ out' = <<>> /\ out2' = <<>> /\ beforeHash' = ""
  /\ UNCHANGED << apiKey, address, startDate, endDate, maxRows, progress,
                  yielded, batchMax, lastLen >>

\* catch + finally of fetchAll: the locals of the aborted run are dropped
Fail(msg, how) ==
  /\ status' = msg
  /\ loading' = FALSE
  /\ pc' = "idle"
  /\ outcome' = how
  /\ page' = 0 /\ out' = <<>> /\ out2' = <<>> /\ beforeHash' = ""
  /\ UNCHANGED << apiKey, address, startDate, endDate, maxRows, progress,
                  rows, yielded, batchMax, lastLen >>

\* setStatus("Done"); setProgress(100); finally setLoading(false)
Finish ==
  /\ status' = "Done"
  /\ progress' = 100
  /\ loading' = FALSE
  /\ pc' = "idle"
  /\ page' = 0 /\ out' = <<>> /\ out2' = <<>> /\ beforeHash' = ""

\* first step of the for-await: iterTransactions runs up to its first fetch
StartCrawl ==
  /\ out2' = <<>>
  /\ beforeHash' = ""
  /\ inflight' = Append(Tail(inflight), TxReq(TxLimit, ""))
  /\ pc' = "transactions"
  /\ page' = 0 /\ out' = <<>>

FetchAll ==
  /\ CanStartFetch
  /\ \E sd \in StartDates, ed \in EndDates, mr \in MaxRowsSet :
       IF ValidationError # ""
       THEN /\ status' = ValidationError
            /\ loading' = FALSE
            /\ UNCHANGED << apiKey, address, startDate, endDate, maxRows,
                            progress, rows, pc, page, out, out2, beforeHash,
                            inflight, outcome, yielded, batchMax, lastLen >>
       ELSE /\ startDate' = sd /\ endDate' = ed /\ maxRows' = mr
            /\ loading' = TRUE
            /\ status' = "Fetching account..."
            /\ progress' = 5
            /\ rows' = <<>>
            /\ inflight' = Append(inflight, AccountReq)
            /\ pc' = "account"
            /\ outcome' = "none"
            /\ page' = 0 /\ out' = <<>> /\ out2' = <<>> /\ beforeHash' = ""
            /\ yielded' = <<>> /\ batchMax' = 0 /\ lastLen' = 0
            /\ UNCHANGED << apiKey, address >>

AccountResponse ==
  /\ pc = "account" /\ inflight # <<>>
  /\ \/ \E s \in FailStatuses :
          Fail(AccountError(s), "http") /\ inflight' = Tail(inflight)
     \/ Fail(NetworkError, "net") /\ inflight' = Tail(inflight)
     \/ /\ outcome' = "ok"
        /\ IF HasDates
           THEN /\ page' = 1 /\ out' = <<>>
                /\ status' = "Fetching balance changes..."
                /\ inflight' = Append(Tail(inflight), BalanceReq(1, PageSize))
                /\ pc' = "balance"
                /\ UNCHANGED << out2, beforeHash >>
           ELSE /\ StartCrawl
                /\ UNCHANGED status
        /\ UNCHANGED << apiKey, address, startDate, endDate, maxRows, loading,
                        progress, rows, yielded, batchMax, lastLen >>

BalanceResponse ==
  /\ pc = "balance" /\ inflight # <<>>
  /\ \/ \E s \in FailStatuses :
          Fail(BalanceError(s), "http") /\ inflight' = Tail(inflight)
     \/ Fail(NetworkError, "net") /\ inflight' = Tail(inflight)
     \/ \E list \in BalLists :
          /\ list # <<>> => page <= MaxBalPages
          /\ LET o == out \o NormalizeBalList(list) IN
               /\ rows' = o
               /\ progress' = BalanceProgress(page)
               /\ batchMax' = Max(batchMax, Len(list))
               /\ lastLen' = Len(list)
               /\ outcome' = "ok"
               /\ IF BalanceBreak(list, o)
                  THEN /\ status' = "Fetching transactions (pagination) ..."
                       /\ StartCrawl
                  ELSE /\ out' = o
                       /\ page' = NextPage(page)
                       /\ pc' = "balanceSleep"
                       /\ inflight' = Tail(inflight)
                       /\ UNCHANGED << status, out2, beforeHash >>
          /\ UNCHANGED << apiKey, address, startDate, endDate, maxRows,
                          loading, yielded >>

\* sleep(120) of the balance-change loop elapses; the next page is requested
BalanceSleepDone ==
  /\ pc = "balanceSleep"
  /\ inflight' = Append(inflight, BalanceReq(page, PageSize))
  /\ pc' = "balance"
  /\ UNCHANGED << apiKey, address, startDate, endDate, maxRows, status,
                  loading, progress, rows, page, out, out2, beforeHash,
                  outcome, yielded, batchMax, lastLen >>

TransactionsResponse ==
  /\ pc = "transactions" /\ inflight # <<>>
  /\ \/ \E s \in FailStatuses :
          Fail(TxError(s), "http") /\ inflight' = Tail(inflight)
     \/ Fail(NetworkError, "net") /\ inflight' = Tail(inflight)
     \/ \E list \in TxLists :
          /\ list # <<>> => Len(yielded) < MaxTxPages
          /\ outcome' = "ok"
          /\ lastLen' = Len(list)
          /\ inflight' = Tail(inflight)
          /\ IF list = <<>>
             THEN \* if (!list.length) break: the generator ends, loop exits
                  /\ Finish
                  /\ UNCHANGED << rows, yielded, batchMax >>
             ELSE LET o2 == DateFilter(out2 \o NormalizeTxList(list)) IN
                  /\ rows' = o2
                  /\ yielded' = Append(yielded, list)
                  /\ batchMax' = IF yielded = <<>> THEN Len(list)
                                 ELSE Max(batchMax, Len(list))
                  /\ IF TxBreak(o2)
                     THEN Finish
                     ELSE /\ status' = FetchedStatus(Len(o2))
                          /\ progress' = TxProgress(Len(o2))
                          /\ out2' = o2
                          /\ pc' = "transactionsSleep"
                          /\ UNCHANGED << loading, page, out, beforeHash >>
          /\ UNCHANGED << apiKey, address, startDate, endDate, maxRows >>

\* sleep(120) of the transaction loop elapses; the generator resumes after
\* its yield
TransactionsSleepDone ==
  /\ pc = "transactionsSleep"
  /\ LET bh == NextCursor(yielded[Len(yielded)])
     IN  IF bh = ""
         THEN /\ Finish
              /\ UNCHANGED inflight
         ELSE /\ beforeHash' = bh
              /\ inflight' = Append(inflight, TxReq(TxLimit, bh))
              /\ pc' = "transactions"
              /\ UNCHANGED << status, progress, loading, page, out, out2 >>
  /\ UNCHANGED << apiKey, address, startDate, endDate, maxRows, rows,
                  outcome, yielded, batchMax, lastLen >>

Next ==
  \/ SetApiKey
  \/ SetAddress
  \/ FetchAll
  \/ AccountResponse
  \/ BalanceResponse
  \/ BalanceSleepDone
  \/ TransactionsResponse
  \/ TransactionsSleepDone

Spec == Init /\ [][Next]_vars

(***************************************************************************)
(* Properties                                                              *)
(***************************************************************************)
Last(s) == s[Len(s)]
IsPrefix(s, t) == Len(s) <= Len(t) /\ SubSeq(t, 1, Len(s)) = s
\* this step is the successful settlement of the outstanding request
AnsweredOk == inflight # <<>> /\ inflight' # inflight /\ outcome' = "ok"
RECURSIVE FlatRows(_)
\* the rows of all yielded batches, in fetch order
FlatRows(bs) ==
  IF bs = <<>> THEN <<>>
  ELSE FlatRows(SubSeq(bs, 1, Len(bs) - 1))
         \o [i \in 1..Len(Last(bs)) |->
               [blockTime |-> Last(bs)[i].blockTime,
                signature |-> Last(bs)[i].txHash]]

\* C1: while a transaction-page request is outstanding, the rows accumulated
\* by the fetch (the visible result set) number fewer than the cap, also after
\* a balance-change phase that reached the cap.
C1_NoTxRequestAtCap ==
  \A i \in 1..Len(inflight) :
    inflight[i].kind = "transactions" => Len(rows) < maxRows

\* C2: every change of the result set during the transaction crawl keeps the
\* rows shown before (the balance-change rows first) as a prefix: rows are
\* only appended, never replaced, and nothing is deduplicated.
C2_BalanceRowsKept ==
  [][(pc = "transactions" /\ rows' # rows) => IsPrefix(rows, rows')]_vars

\* C3: within one fetchAll invocation progress never decreases from one
\* report to the next, and it becomes 100 only together with status Done.
C3_ProgressMonotone ==
  [][/\ pc # "idle" => progress' >= progress
     /\ (pc # "idle" /\ progress' = 100) => status' = "Done"]_vars

\* C4: a fetchAll invoked with an empty API key or an empty address sets the
\* validation message as status and does nothing else: no request is sent,
\* no phase is entered, loading stays false, rows and progress are untouched.
C4_ValidationBeforeNetwork ==
  [][(/\ pc = "idle"
      /\ apiKey = "" \/ address = ""
      /\ apiKey' = apiKey /\ address' = address)
     => /\ status' = (IF apiKey = "" THEN "Enter your Solscan Pro API key."
                      ELSE "Enter a Solana address.")
        /\ inflight = <<>> /\ inflight' = <<>>
        /\ pc' = "idle"
        /\ ~loading'
        /\ rows' = rows /\ progress' = progress]_vars

C4_Witness ==
  /\ status = "Enter a Solana address."
  /\ pc = "idle" /\ inflight = <<>> /\ ~loading
  /\ rows # <<>> /\ progress = 100

\* C5: when an endpoint call fails (HTTP status not ok, or transport
\* failure) the fetch ends at once: status is the error's message, no
\* request is outstanding or sent again before a new fetch is started,
\* progress and the rows shown so far are unchanged.
C5_FailureAborts ==
  [][/\ (inflight # <<>> /\ outcome' \in {"http", "net"})
        => /\ status' =
                (IF outcome' = "net" THEN "Failed to fetch"
                 ELSE IF inflight[1].kind = "detail"
                        THEN "Account detail error (500)"
                 ELSE IF inflight[1].kind = "balance_change"
                        THEN "Balance changes error (500)"
                 ELSE "Transactions error (500)")
           /\ inflight' = <<>>
           /\ pc' = "idle"
           /\ ~loading'
           /\ rows' = rows /\ progress' = progress
     /\ (pc = "idle" /\ inflight' # <<>>)
        => (status' = "Fetching account..." /\ inflight'[1].kind = "detail")
    ]_vars

C5_Witness ==
  /\ outcome = "http" /\ status = "Transactions error (500)"
  /\ pc = "idle" /\ inflight = <<>> /\ ~loading
  /\ rows # <<>> /\ yielded # <<>> /\ progress = 60

C7_Pagination ==
  [][/\ \A i \in 1..Len(inflight') :
          inflight'[i].kind = "transactions"
            => IF yielded' = <<>> THEN inflight'[i].beforeHash = ""
               ELSE /\ inflight'[i].beforeHash = Last(Last(yielded')).txHash
                    /\ inflight'[i].beforeHash # ""
     /\ (pc = "transactions" /\ AnsweredOk /\ lastLen' = 0)
          => (yielded' = yielded /\ rows' = rows /\ pc' = "idle"
              /\ inflight' = <<>>)
     /\ (pc = "transactions" /\ AnsweredOk /\ lastLen' > 0)
          => (/\ Len(yielded') = Len(yielded) + 1
              /\ Len(Last(yielded')) = lastLen'
              /\ SubSeq(yielded', 1, Len(yielded)) = yielded
              /\ inflight' = <<>>)
     /\ (pc = "transactionsSleep" /\ pc' # pc)
          => IF Last(Last(yielded)).txHash = ""
             THEN pc' = "idle" /\ inflight' = <<>>
             ELSE pc' = "transactions" /\ Len(inflight') = 1
    ]_vars

C7_Witness ==
  /\ pc = "idle" /\ status = "Done"
  /\ Len(yielded) = 2
  /\ Last(yielded[1]).txHash = "h2" /\ yielded[1][1].txHash = "h1"
  /\ Last(Last(yielded)).txHash = ""

\* a row with a present timestamp strictly outside the entered bounds
C8_Outside(r) ==
  /\ r.blockTime # 0
  /\ \/ startDate # <<>> /\ r.blockTime < startDate[1] * DaySeconds
     \/ endDate # <<>> /\ r.blockTime >= (endDate[1] + 1) * DaySeconds
C8_Inside(r) == ~C8_Outside(r)

\* C8: once the transaction crawl has produced rows, the result set is the
\* sequence of all rows yielded so far without exactly those whose
\* timestamp is present and strictly below the start bound or strictly above
\* the end bound; rows inside the bounds and rows without timestamp stay.
C8_DateFilter ==
  yielded # <<>> => rows = SelectSeq(FlatRows(yielded), C8_Inside)

C8_Witness ==
  /\ startDate # <<>> /\ endDate # <<>>
  /\ yielded # <<>>
  /\ Len(rows) < Len(FlatRows(yielded))
  /\ \E i \in 1..Len(rows) : rows[i].blockTime = 0
  /\ \E i \in 1..Len(rows) : rows[i].blockTime # 0

\* the paging of the balance-change phase, as a predicate of one step
C9_Paging ==
  /\ \A i \in 1..Len(inflight') :
        inflight'[i].kind = "balance_change"
          => (inflight'[i].pageSize = 100 /\ inflight'[i].page >= 1)
  /\ (pc = "account" /\ AnsweredOk)
        => pc' \in {"balance", "transactions"}
  /\ (pc = "account" /\ pc' = "balance") => inflight'[1].page = 1
  /\ (pc = "balance" /\ pc' = "balanceSleep")
        => page' = inflight[1].page + 1
  /\ (pc = "balanceSleep" /\ pc' = "balance") => inflight'[1].page = page
  /\ (pc # "balance" /\ pc' = "balance")
        => pc \in {"account", "balanceSleep"}
  /\ (pc = "balance" /\ AnsweredOk)
        => /\ pc' \in {"balanceSleep", "transactions"}
           /\ pc' = "transactions"
                <=> (lastLen' = 0 \/ Len(rows') >= maxRows)
           /\ pc' = "transactions"
                => (/\ Len(inflight') = 1
                    /\ inflight'[1].kind = "transactions"
                    /\ inflight'[1].beforeHash = "")
           /\ (inflight[1].page = 1 /\ lastLen' = 0) => rows' = <<>>

\* C9 as stated: the balance-change phase is entered exactly when a start
\* or an end date was supplied, and pages as described.
C9_EnteredWhenDateSupplied ==
  [][/\ (pc = "account" /\ AnsweredOk)
          => (pc' = "balance" <=> (startDate # <<>> \/ endDate # <<>>))
     /\ C9_Paging]_vars

\* C10: at most one request is outstanding; loading is true exactly while a
\* fetch is in progress and false after every outcome; no fetch starts
\* while loading is true.
C10_OneAtATime ==
  [][/\ Len(inflight') <= 1
     /\ loading' <=> pc' # "idle"
     /\ pc' = "idle" => inflight' = <<>>
     /\ (loading /\ pc # "account") => pc' # "account"
    ]_vars

C10_Witness ==
  /\ loading /\ pc = "transactions"
  /\ Len(inflight) = 1 /\ yielded # <<>>
====
